---- MODULE Spec2Model ----
(***************************************************************************)
(* Model of the solfs data store SDK: the borsh argument classes and       *)
(* schemas, the instruction-data encoders, the five instruction builders   *)
(* of DataStoreProgram, the metadata parser, and the ledger the tests      *)
(* drive through those builders.                                           *)
(*                                                                         *)
(* Conventions.  A byte sequence (Buffer, Uint8Array) is a sequence of     *)
(* numbers in 0..255.  An optional JavaScript value (an omitted parameter, *)
(* a property an object literal does not carry) is a sequence of length    *)
(* at most one: <<>> is undefined, <<v>> is v.  A PublicKey is a name      *)
(* whose 32 bytes KeyBytes gives.                                          *)
(***************************************************************************)
EXTENDS Integers, Sequences, FiniteSets, TLC

VARIABLES
    call,       \* the last client-side call: its operation, arguments and result
    accounts,   \* the ledger: address -> account info, or NoAccount
    tx,         \* the last transaction sent: instruction, signers, outcome
    handover,   \* the last authority change of the live data store, if any
    lamports,   \* the ledger: address -> balance, when the run observes balances
    test        \* the local variables of the running test case

vars == <<call, accounts, tx, handover, lamports, test>>

(***************************************************************************)
(* Bounds of the model.                                                    *)
(***************************************************************************)
MaxData == 2

\* the byte values data buffers are drawn from
DataBytes == {7, 255}

RECURSIVE SeqsUpTo(_, _)
SeqsUpTo(S, n) ==
    IF n = 0 THEN {<<>>}
    ELSE LET shorter == SeqsUpTo(S, n - 1)
         IN  shorter \cup {Append(s, x) : s \in {t \in shorter : Len(t) = n - 1}, x \in S}

Buffers == SeqsUpTo(DataBytes, MaxData)

Undefined == <<>>

Some(v) == <<v>>

(***************************************************************************)
(* Public keys.  Two wallets, two data accounts, the system program and    *)
(* the data store program; each data account has its derived address.     *)
(***************************************************************************)
Wallets == {"W1", "W2"}

DataKeys == {"D1", "D2"}

DerivedKeys == {"P1", "P2"}

SystemProgramId == "SystemProgram"

DATA_STORE_PROGRAM_ID == "CxcgUrnSLjL7S44vLFxq6Jc7zscw5MUrZsobo711gmaq"

PDA_SEED == "data_store"

PublicKeys == Wallets \cup DataKeys \cup DerivedKeys \cup {SystemProgramId, DATA_STORE_PROGRAM_ID}

KeyWidth == 32

\* PublicKey.toBytes(): the 32 bytes of a key.  The system program's key is
\* 32 zero bytes; W2 starts with a zero byte.
KeyBytes(k) ==
    CASE k = SystemProgramId -> [i \in 1..KeyWidth |-> 0]
      [] k = "W1" -> [i \in 1..KeyWidth |-> (17 + 7 * i) % 256]
      [] k = "W2" -> [i \in 1..KeyWidth |-> IF i = 1 THEN 0 ELSE (200 + 3 * i) % 256]
      [] k = "D1" -> [i \in 1..KeyWidth |-> (91 + 11 * i) % 256]
      [] k = "D2" -> [i \in 1..KeyWidth |-> (92 + 13 * i) % 256]
      [] k = "P1" -> [i \in 1..KeyWidth |-> (5 + 29 * i) % 256]
      [] k = "P2" -> [i \in 1..KeyWidth |-> (6 + 31 * i) % 256]
      [] OTHER -> [i \in 1..KeyWidth |-> (171 + 5 * i) % 256]

(***************************************************************************)
(* Base58 (PublicKey.toBase58): leading zero bytes become "1", the rest is *)
(* the big-endian number written in base 58.                               *)
(***************************************************************************)
Base58Alphabet ==
    << "1","2","3","4","5","6","7","8","9",
       "A","B","C","D","E","F","G","H","J","K","L","M","N","P","Q",
       "R","S","T","U","V","W","X","Y","Z",
       "a","b","c","d","e","f","g","h","i","j","k","m","n","o","p",
       "q","r","s","t","u","v","w","x","y","z" >>

Base58Radix == 58

RECURSIVE DivMod58(_, _, _, _)
\* long division of the big-endian number num by 58: <<quotient, remainder>>
DivMod58(num, i, rem, quot) ==
    IF i > Len(num) THEN <<quot, rem>>
    ELSE LET cur == rem * 256 + num[i]
         IN  DivMod58(num, i + 1, cur % Base58Radix, Append(quot, cur \div Base58Radix))

IsZeroNumber(num) == \A i \in 1..Len(num) : num[i] = 0

RECURSIVE Base58Digits(_, _)
Base58Digits(num, acc) ==
    IF IsZeroNumber(num) THEN acc
    ELSE LET dm == DivMod58(num, 1, 0, <<>>)
         IN  Base58Digits(dm[1], <<Base58Alphabet[dm[2] + 1]>> \o acc)

RECURSIVE LeadingZeros(_)
LeadingZeros(bytes) ==
    IF bytes = <<>> \/ Head(bytes) # 0 THEN 0 ELSE 1 + LeadingZeros(Tail(bytes))

toBase58(bytes) ==
    [i \in 1..LeadingZeros(bytes) |-> "1"] \o Base58Digits(bytes, <<>>)

(***************************************************************************)
(* Fixed-width little-endian numbers, as the borsh writer lays them out.   *)
(***************************************************************************)
RECURSIVE LittleEndian(_, _)
LittleEndian(v, width) ==
    IF width = 0 THEN <<>> ELSE <<v % 256>> \o LittleEndian(v \div 256, width - 1)

RECURSIVE LittleEndianValue(_)
LittleEndianValue(bytes) ==
    IF bytes = <<>> THEN 0 ELSE Head(bytes) + 256 * LittleEndianValue(Tail(bytes))

\* new BN(n) of a non-negative integer number holds that integer
BN(n) == n

\* obj[name] in JavaScript: undefined when the object has no such property
Prop(obj, name) == IF name \in DOMAIN obj THEN Some(obj[name]) ELSE Undefined

OrFalseMutant(debug) == debug # Undefined

\* debug || false
OrFalse(debug) == IF debug = Undefined THEN FALSE ELSE debug[1]

(***************************************************************************)
(* The borsh argument classes.  Each constructor copies the properties of  *)
(* its argument object; InitializeDataStoreArgs turns the authority key    *)
(* into its bytes.  A property the argument object lacks stays undefined.  *)
(***************************************************************************)
InitializeDataStoreArgs(args) ==
    [f \in DOMAIN args |-> IF f = "authority" THEN KeyBytes(args[f]) ELSE args[f]]
        @@ [constructor |-> "InitializeDataStoreArgs"]

UpdateDataStoreArgs(args) ==
    [f \in DOMAIN args |-> args[f]] @@ [constructor |-> "UpdateDataStoreArgs"]

UpdateDataStoreAuthorityArgs(args) ==
    [constructor |-> "UpdateDataStoreAuthorityArgs", debug |-> args.debug]

FinalizeDataStoreArgs(args) ==
    [constructor |-> "FinalizeDataStoreArgs", debug |-> args.debug]

CloseDataStoreArgs(args) ==
    [constructor |-> "CloseDataStoreArgs", debug |-> args.debug]

\* The schema map: class -> ordered <<field, type>> list.  "array32" is the
\* fixed array [32], "vec" the variable-length array ['u8'].
SchemaClassesMutant ==
    {"InitializeDataStoreArgs", "UpdateDataStoreArgs",
     "UpdateDataStoreAuthorityArgs", "FinalizeDataStoreArgs"}

SchemaClasses ==
    {"InitializeDataStoreArgs", "UpdateDataStoreArgs",
     "UpdateDataStoreAuthorityArgs", "FinalizeDataStoreArgs", "CloseDataStoreArgs"}

schemasMutantOrder(class) ==
    CASE class = "InitializeDataStoreArgs" ->
            << <<"debug", "bool">>, <<"dataType", "u8">>, <<"bumpSeed", "u8">>,
               <<"isCreated", "bool">>, <<"space", "u64">>,
               <<"authority", "array32">>, <<"isDynamic", "bool">> >>
      [] class = "UpdateDataStoreArgs" ->
            << <<"debug", "bool">>, <<"dataHash", "array32">>, <<"offset", "u64">>,
               <<"data", "vec">>, <<"reallocDown", "bool">>, <<"dataType", "u8">> >>
      [] OTHER -> << <<"debug", "bool">> >>

schemasMutantDrop(class) ==
    CASE class = "InitializeDataStoreArgs" ->
            << <<"debug", "bool">>, <<"dataType", "u8">>, <<"bumpSeed", "u8">>,
               <<"isCreated", "bool">>, <<"space", "u64">>,
               <<"authority", "array32">> >>
      [] class = "UpdateDataStoreArgs" ->
            << <<"debug", "bool">>, <<"dataHash", "array32">>, <<"data", "vec">>,
               <<"offset", "u64">>, <<"reallocDown", "bool">>, <<"dataType", "u8">> >>
      [] OTHER -> << <<"debug", "bool">> >>

schemas(class) ==
    CASE class = "InitializeDataStoreArgs" ->
            << <<"debug", "bool">>, <<"dataType", "u8">>, <<"bumpSeed", "u8">>,
               <<"isCreated", "bool">>, <<"space", "u64">>,
               <<"authority", "array32">>, <<"isDynamic", "bool">> >>
      [] class = "UpdateDataStoreArgs" ->
            << <<"debug", "bool">>, <<"dataHash", "array32">>, <<"data", "vec">>,
               <<"offset", "u64">>, <<"reallocDown", "bool">>, <<"dataType", "u8">> >>
      [] class = "UpdateDataStoreAuthorityArgs" -> << <<"debug", "bool">> >>
      [] class = "FinalizeDataStoreArgs" -> << <<"debug", "bool">> >>
      [] class = "CloseDataStoreArgs" -> << <<"debug", "bool">> >>

(***************************************************************************)
(* borsh serialize: the fields in schema order, each by its type.  The u8  *)
(* writer coerces its value to a number (+value): an undefined property    *)
(* is NaN there, which the byte store keeps as 0.                          *)
(***************************************************************************)
EncodeBool(v) == <<IF v[1] THEN 1 ELSE 0>>

EncodeU8(v) == IF v = Undefined THEN <<0>> ELSE <<v[1]>>

EncodeU64(v) == LittleEndian(v[1], 8)

EncodeArray32(v) == v[1]

EncodeVec(v) == LittleEndian(Len(v[1]), 4) \o v[1]

EncodeField(type, v) ==
    CASE type = "bool" -> EncodeBool(v)
      [] type = "u8" -> EncodeU8(v)
      [] type = "u64" -> EncodeU64(v)
      [] type = "array32" -> EncodeArray32(v)
      [] type = "vec" -> EncodeVec(v)

RECURSIVE serialize(_, _)
serialize(schema, obj) ==
    IF schema = <<>> THEN <<>>
    ELSE EncodeField(Head(schema)[2], Prop(obj, Head(schema)[1]))
             \o serialize(Tail(schema), obj)

(***************************************************************************)
(* borsh deserialize: the same fields read back in schema order.  It fails *)
(* when the bytes end early or bytes are left over.                        *)
(***************************************************************************)
\* the width of the field of this type that starts at pos, -1 when its
\* length prefix is cut short
FieldWidth(type, bytes, pos) ==
    CASE type = "bool" -> 1
      [] type = "u8" -> 1
      [] type = "u64" -> 8
      [] type = "array32" -> 32
      [] type = "vec" ->
            IF pos + 3 > Len(bytes) THEN -1
            ELSE 4 + LittleEndianValue(SubSeq(bytes, pos, pos + 3))

DecodeField(type, bytes) ==
    CASE type = "bool" -> bytes[1] > 0
      [] type = "u8" -> bytes[1]
      [] type = "u64" -> LittleEndianValue(bytes)
      [] type = "array32" -> bytes
      [] type = "vec" -> SubSeq(bytes, 5, Len(bytes))

RECURSIVE DeserializeFields(_, _, _, _)
DeserializeFields(schema, bytes, pos, acc) ==
    IF schema = <<>> THEN [ok |-> pos = Len(bytes) + 1, value |-> acc]
    ELSE LET name  == Head(schema)[1]
             type  == Head(schema)[2]
             width == FieldWidth(type, bytes, pos)
         IN  IF width < 0 \/ pos + width - 1 > Len(bytes)
             THEN [ok |-> FALSE, value |-> acc]
             ELSE DeserializeFields(Tail(schema), bytes, pos + width,
                      acc @@ (name :> DecodeField(type, SubSeq(bytes, pos, pos + width - 1))))

deserialize(schema, bytes) == DeserializeFields(schema, bytes, 1, <<>>)

(***************************************************************************)
(* A failed call is [ok |-> FALSE, error |-> message]; a call that returns *)
(* is [ok |-> TRUE, value |-> result].                                     *)
(***************************************************************************)
Throw(message) == [ok |-> FALSE, error |-> message]

Return(v) == [ok |-> TRUE, value |-> v]

serializeInstructionDataMutant(instruction) ==
    IF instruction.constructor \notin SchemaClassesMutant
    THEN Throw("Schema not found for instruction")
    ELSE Return(serialize(schemas(instruction.constructor), instruction))

serializeInstructionData(instruction) ==
    IF instruction.constructor \notin SchemaClasses
    THEN Throw("Schema not found for instruction")
    ELSE Return(serialize(schemas(instruction.constructor), instruction))

(***************************************************************************)
(* sha256 of a buffer: a 32-byte digest that depends on every byte and on  *)
(* the length (a stand-in for the hash function of the library).           *)
(***************************************************************************)
RECURSIVE DigestMix(_, _, _)
DigestMix(data, i, j) ==
    IF i > Len(data) THEN 0
    ELSE ((data[i] + 1) * (i + j) + 3 * DigestMix(data, i + 1, j)) % 256

sha256(data) == [j \in 1..32 |-> (99 + 41 * Len(data) + j + DigestMix(data, 1, j)) % 256]

calculateDataHash(data) == sha256(data)

createInitializeDataStoreInstruction(args) ==
    serializeInstructionData(InitializeDataStoreArgs(args))

createUpdateDataStoreInstructionMutant(args) ==
    serializeInstructionData(
        UpdateDataStoreArgs(args @@ [dataHash |-> calculateDataHash(args.data)]))

\* {...args, dataHash}: the computed hash is written after the spread, so it
\* replaces a dataHash property the argument object may carry.
createUpdateDataStoreInstruction(args) ==
    serializeInstructionData(
        UpdateDataStoreArgs([dataHash |-> calculateDataHash(args.data)] @@ args))

createUpdateAuthorityInstruction(debug) ==
    serializeInstructionData(UpdateDataStoreAuthorityArgs([debug |-> debug]))

createFinalizeInstruction(debug) ==
    serializeInstructionData(FinalizeDataStoreArgs([debug |-> debug]))

createCloseInstruction(debug) ==
    serializeInstructionData(CloseDataStoreArgs([debug |-> debug]))

(***************************************************************************)
(* DataStoreProgram: the derived address and the five instruction          *)
(* builders.                                                               *)
(***************************************************************************)
File == 0

Directory == 1

DataStoreTypeOption == {File, Directory}

Uninitialized == 0

Initialized == 1

Finalized == 2

\* PublicKey.findProgramAddressSync([PDA_SEED, dataKey], DATA_STORE_PROGRAM_ID):
\* the derived address and its bump seed, a fixed function of the data key.
getPDA(dataKey) ==
    CASE dataKey = "D1" -> <<"P1", 255>>
      [] dataKey = "D2" -> <<"P2", 253>>

AccountMeta(pubkey, isSigner, isWritable) ==
    [pubkey |-> pubkey, isSigner |-> isSigner, isWritable |-> isWritable]

\* new TransactionInstruction({keys, programId, data}); a throw while the data
\* is built leaves the builder by that throw.
TransactionInstruction(keys, programId, data) ==
    IF data.ok THEN Return([keys |-> keys, programId |-> programId, data |-> data.value])
    ELSE data

InitializePayloadArgsMutant(authority, dataType, isCreated, space, isDynamic, debug) ==
    [debug |-> OrFalse(debug), dataType |-> dataType, isCreated |-> isCreated,
     space |-> BN(space), authority |-> authority, isDynamic |-> isCreated]

\* the argument object initializeDataStore hands to the encoder
InitializePayloadArgs(authority, dataType, isCreated, space, isDynamic, debug) ==
    [debug |-> OrFalse(debug), dataType |-> dataType, isCreated |-> isCreated,
     space |-> BN(space), authority |-> authority, isDynamic |-> isDynamic]

initializeDataStore(feePayer, dataAccount, authority, dataType, isCreated, space, isDynamic, debug) ==
    LET pda == getPDA(dataAccount)[1]
        instructionData == createInitializeDataStoreInstruction(
            InitializePayloadArgs(authority, dataType, isCreated, space, isDynamic, debug))
    IN  TransactionInstruction(
            << AccountMeta(feePayer, TRUE, TRUE),
               AccountMeta(dataAccount, ~isCreated, TRUE),
               AccountMeta(pda, FALSE, TRUE),
               AccountMeta(SystemProgramId, FALSE, FALSE) >>,
            DATA_STORE_PROGRAM_ID, instructionData)

UpdatePayloadArgsMutant(data, offset, reallocDown, dataType, debug) ==
    [debug |-> OrFalse(debug), data |-> data, offset |-> BN(0),
     reallocDown |-> reallocDown, dataType |-> dataType]

\* the argument object updateDataStore hands to the encoder
UpdatePayloadArgs(data, offset, reallocDown, dataType, debug) ==
    [debug |-> OrFalse(debug), data |-> data, offset |-> BN(offset),
     reallocDown |-> reallocDown, dataType |-> dataType]

updateDataStore(authority, dataAccount, data, offset, reallocDown, dataType, debug) ==
    LET pda == getPDA(dataAccount)[1]
        instructionData == createUpdateDataStoreInstruction(
            UpdatePayloadArgs(data, offset, reallocDown, dataType, debug))
    IN  TransactionInstruction(
            << AccountMeta(authority, TRUE, TRUE),
               AccountMeta(dataAccount, FALSE, TRUE),
               AccountMeta(pda, FALSE, TRUE),
               AccountMeta(SystemProgramId, FALSE, FALSE) >>,
            DATA_STORE_PROGRAM_ID, instructionData)

updateDataStoreAuthorityMutant(oldAuthority, dataAccount, newAuthority, debug) ==
    LET pda == getPDA(dataAccount)[1]
        instructionData == createUpdateAuthorityInstruction(OrFalse(debug))
    IN  TransactionInstruction(
            << AccountMeta(oldAuthority, TRUE, FALSE),
               AccountMeta(dataAccount, FALSE, FALSE),
               AccountMeta(pda, FALSE, TRUE),
               AccountMeta(newAuthority, FALSE, FALSE) >>,
            DATA_STORE_PROGRAM_ID, instructionData)

updateDataStoreAuthority(oldAuthority, dataAccount, newAuthority, debug) ==
    LET pda == getPDA(dataAccount)[1]
        instructionData == createUpdateAuthorityInstruction(OrFalse(debug))
    IN  TransactionInstruction(
            << AccountMeta(oldAuthority, TRUE, FALSE),
               AccountMeta(dataAccount, FALSE, FALSE),
               AccountMeta(pda, FALSE, TRUE),
               AccountMeta(newAuthority, TRUE, FALSE) >>,
            DATA_STORE_PROGRAM_ID, instructionData)

finalizeDataStoreMutant(authority, dataAccount, debug) ==
    LET pda == getPDA(dataAccount)[1]
        instructionData == createFinalizeInstruction(OrFalse(debug))
    IN  TransactionInstruction(
            << AccountMeta(authority, TRUE, FALSE),
               AccountMeta(pda, FALSE, TRUE),
               AccountMeta(dataAccount, FALSE, FALSE) >>,
            DATA_STORE_PROGRAM_ID, instructionData)

finalizeDataStore(authority, dataAccount, debug) ==
    LET pda == getPDA(dataAccount)[1]
        instructionData == createFinalizeInstruction(OrFalse(debug))
    IN  TransactionInstruction(
            << AccountMeta(authority, TRUE, FALSE),
               AccountMeta(dataAccount, FALSE, FALSE),
               AccountMeta(pda, FALSE, TRUE) >>,
            DATA_STORE_PROGRAM_ID, instructionData)

\* borshSerialize has no definition and no import in the sources at hand; it
\* is modelled from the wire format of the close payload: the debug flag only.
borshSerialize(obj) == Return(EncodeBool(Some(obj.debug)))

closeDataStore(authority, dataAccount, debug) ==
    LET pda == getPDA(dataAccount)[1]
        instructionData == borshSerialize([debug |-> OrFalse(debug)])
    IN  TransactionInstruction(
            << AccountMeta(authority, TRUE, TRUE),
               AccountMeta(dataAccount, FALSE, TRUE),
               AccountMeta(pda, FALSE, TRUE) >>,
            DATA_STORE_PROGRAM_ID, instructionData)

(***************************************************************************)
(* The metadata account and its parser.                                    *)
(***************************************************************************)
\* The layout of the metadata account: the fields of the creation payload
\* that the account keeps, in that payload's order, the content hash of the
\* write payload, then the status and the space.
MetadataSchema ==
    << <<"dataType", "u8">>, <<"bumpSeed", "u8">>, <<"authority", "array32">>,
       <<"isDynamic", "bool">>, <<"dataHash", "array32">>,
       <<"dataStatus", "u8">>, <<"space", "u64">> >>

\* borshDeserialize has no definition and no import in the sources at hand;
\* it is modelled as the borsh decoding of the metadata layout.
borshDeserialize(data) ==
    LET decoded == deserialize(MetadataSchema, data)
    IN  IF decoded.ok THEN Return(decoded.value)
        ELSE Throw("Metadata account data does not hold the metadata layout")

Null == Undefined

AccountInfo(data) == Some([data |-> data])

parseMetadataFromAccountInfoMutantGuard(metadataInfo) ==
    IF metadataInfo = Null
    THEN Throw("Invalid metadata account data")
    ELSE LET metadata == borshDeserialize(metadataInfo[1].data)
         IN  IF ~metadata.ok THEN metadata
             ELSE Return([dataType   |-> metadata.value.dataType,
                          authority  |-> toBase58(metadata.value.authority),
                          dataStatus |-> metadata.value.dataStatus,
                          bumpSeed   |-> metadata.value.bumpSeed,
                          dataHash   |-> metadata.value.dataHash,
                          isDynamic  |-> metadata.value.isDynamic,
                          space      |-> metadata.value.space])

parseMetadataFromAccountInfoMutantFields(metadataInfo) ==
    IF metadataInfo = Null \/ Len(metadataInfo[1].data) = 0
    THEN Throw("Invalid metadata account data")
    ELSE LET metadata == borshDeserialize(metadataInfo[1].data)
         IN  IF ~metadata.ok THEN metadata
             ELSE Return([dataType   |-> metadata.value.dataType,
                          authority  |-> toBase58(metadata.value.authority),
                          dataStatus |-> metadata.value.bumpSeed,
                          bumpSeed   |-> metadata.value.dataStatus,
                          dataHash   |-> metadata.value.dataHash,
                          isDynamic  |-> metadata.value.isDynamic,
                          space      |-> metadata.value.space])

parseMetadataFromAccountInfo(metadataInfo) ==
    IF metadataInfo = Null \/ Len(metadataInfo[1].data) = 0
    THEN Throw("Invalid metadata account data")
    ELSE LET metadata == borshDeserialize(metadataInfo[1].data)
         IN  IF ~metadata.ok THEN metadata
             ELSE Return([dataType   |-> metadata.value.dataType,
                          authority  |-> toBase58(metadata.value.authority),
                          dataStatus |-> metadata.value.dataStatus,
                          bumpSeed   |-> metadata.value.bumpSeed,
                          dataHash   |-> metadata.value.dataHash,
                          isDynamic  |-> metadata.value.isDynamic,
                          space      |-> metadata.value.space])

(***************************************************************************)
(* The ledger as the client sees it: getAccountInfo of an address.         *)
(***************************************************************************)
NoAccount == Null

LedgerDataKeys == {"D1"}

LedgerAddresses == LedgerDataKeys \cup {getPDA(d)[1] : d \in LedgerDataKeys}

EmptyLedger == [a \in LedgerAddresses |-> NoAccount]

NoTransaction ==
    [kind |-> "none", ok |-> FALSE, first |-> "", dataAccount |-> "", signers |-> {},
     before |-> 0]

NoCall == [op |-> "none"]

\* a balance no test reads: the runner keeps the wallets funded
Unobserved == Undefined

UnobservedBalances == [a \in Wallets \cup LedgerAddresses |-> Unobserved]

NoTest == [name |-> "none"]

(***************************************************************************)
(* Client-side calls.  Every action applies one exported function or one   *)
(* builder to arguments drawn from bounded sets and records the result.    *)
(* The functions keep no state between calls, so a run records one call.   *)
(***************************************************************************)
U64Samples == {0, 1, 12, 256, 65537, 2147483647}

U8Samples == {0, 253, 255}

OptionalBooleans == {Undefined, Some(TRUE), Some(FALSE)}

InitClient ==
    /\ call = NoCall
    /\ accounts = EmptyLedger
    /\ tx = NoTransaction
    /\ handover = Null
    /\ lamports = UnobservedBalances
    /\ test = NoTest

CallCreateInitializeDataStoreInstruction ==
    /\ call = NoCall
    /\ \E debug \in BOOLEAN, dataType \in DataStoreTypeOption, bumpSeed \in U8Samples,
       isCreated \in BOOLEAN, space \in U64Samples, authority \in Wallets,
       isDynamic \in BOOLEAN :
        LET args == [debug |-> debug, dataType |-> dataType, bumpSeed |-> bumpSeed,
                     isCreated |-> isCreated, space |-> BN(space),
                     authority |-> authority, isDynamic |-> isDynamic]
        IN  /\ call' = [op |-> "createInitializeDataStoreInstruction", args |-> args,
                        result |-> createInitializeDataStoreInstruction(args)]
            /\ UNCHANGED <<accounts, tx, handover, lamports, test>>

CallInitializeDataStore ==
    /\ call = NoCall
    /\ \E feePayer \in Wallets, dataAccount \in DataKeys, authority \in Wallets,
       dataType \in DataStoreTypeOption, isCreated \in BOOLEAN, space \in U64Samples,
       isDynamic \in BOOLEAN, debug \in OptionalBooleans :
        /\ call' = [op |-> "initializeDataStore",
                    params |-> [feePayer |-> feePayer, dataAccount |-> dataAccount,
                                authority |-> authority, dataType |-> dataType,
                                isCreated |-> isCreated, space |-> space,
                                isDynamic |-> isDynamic, debug |-> debug],
                    args |-> InitializePayloadArgs(authority, dataType, isCreated,
                                                   space, isDynamic, debug),
                    result |-> initializeDataStore(feePayer, dataAccount, authority,
                                   dataType, isCreated, space, isDynamic, debug)]
        /\ UNCHANGED <<accounts, tx, handover, lamports, test>>

\* a dataHash property a caller may put on the argument object
SuppliedHashes == {Undefined, Some([j \in 1..KeyWidth |-> 0]), Some(sha256(<<7>>))}

CallCreateUpdateDataStoreInstruction ==
    /\ call = NoCall
    /\ \E debug \in BOOLEAN, data \in Buffers, offset \in U64Samples,
       reallocDown \in BOOLEAN, dataType \in DataStoreTypeOption,
       supplied \in SuppliedHashes :
        LET named == [debug |-> debug, data |-> data, offset |-> BN(offset),
                      reallocDown |-> reallocDown, dataType |-> dataType]
            args == IF supplied = Undefined THEN named
                    ELSE named @@ [dataHash |-> supplied[1]]
        IN  /\ call' = [op |-> "createUpdateDataStoreInstruction", args |-> args,
                        result |-> createUpdateDataStoreInstruction(args)]
            /\ UNCHANGED <<accounts, tx, handover, lamports, test>>

CallUpdateDataStore ==
    /\ call = NoCall
    /\ \E authority \in Wallets, dataAccount \in DataKeys, data \in Buffers,
       offset \in U64Samples, reallocDown \in BOOLEAN,
       dataType \in DataStoreTypeOption, debug \in OptionalBooleans :
        /\ call' = [op |-> "updateDataStore",
                    params |-> [authority |-> authority, dataAccount |-> dataAccount,
                                data |-> data, offset |-> offset,
                                reallocDown |-> reallocDown, dataType |-> dataType,
                                debug |-> debug],
                    args |-> UpdatePayloadArgs(data, offset, reallocDown, dataType, debug),
                    result |-> updateDataStore(authority, dataAccount, data, offset,
                                               reallocDown, dataType, debug)]
        /\ UNCHANGED <<accounts, tx, handover, lamports, test>>

CallUpdateDataStoreAuthority ==
    /\ call = NoCall
    /\ \E oldAuthority \in Wallets, dataAccount \in DataKeys, newAuthority \in Wallets,
       debug \in OptionalBooleans :
        /\ call' = [op |-> "updateDataStoreAuthority",
                    params |-> [oldAuthority |-> oldAuthority, dataAccount |-> dataAccount,
                                newAuthority |-> newAuthority, debug |-> debug],
                    result |-> updateDataStoreAuthority(oldAuthority, dataAccount,
                                                        newAuthority, debug)]
        /\ UNCHANGED <<accounts, tx, handover, lamports, test>>

CallFinalizeDataStore ==
    /\ call = NoCall
    /\ \E authority \in Wallets, dataAccount \in DataKeys, debug \in OptionalBooleans :
        /\ call' = [op |-> "finalizeDataStore",
                    params |-> [authority |-> authority, dataAccount |-> dataAccount,
                                debug |-> debug],
                    result |-> finalizeDataStore(authority, dataAccount, debug)]
        /\ UNCHANGED <<accounts, tx, handover, lamports, test>>

CallCloseDataStore ==
    /\ call = NoCall
    /\ \E authority \in Wallets, dataAccount \in DataKeys, debug \in OptionalBooleans :
        /\ call' = [op |-> "closeDataStore",
                    params |-> [authority |-> authority, dataAccount |-> dataAccount,
                                debug |-> debug],
                    result |-> closeDataStore(authority, dataAccount, debug)]
        /\ UNCHANGED <<accounts, tx, handover, lamports, test>>

\* objects handed to serializeInstructionData: instances of the five classes
\* (among them the creation arguments as initializeDataStore builds them),
\* plain objects, and objects of a class the schema map does not know
InstructionObjects ==
    {InitializeDataStoreArgs(InitializePayloadArgs("W1", File, FALSE, 12, FALSE, Undefined))}
    \cup {InitializeDataStoreArgs([debug |-> d, dataType |-> File, bumpSeed |-> b,
                              isCreated |-> FALSE, space |-> BN(12),
                              authority |-> "W1", isDynamic |-> d]) :
         d \in BOOLEAN, b \in U8Samples}
    \cup {UpdateDataStoreArgs([debug |-> d, dataHash |-> calculateDataHash(data),
                               data |-> data, offset |-> BN(1), reallocDown |-> d,
                               dataType |-> Directory]) :
         d \in BOOLEAN, data \in Buffers}
    \cup {UpdateDataStoreAuthorityArgs([debug |-> d]) : d \in BOOLEAN}
    \cup {FinalizeDataStoreArgs([debug |-> d]) : d \in BOOLEAN}
    \cup {CloseDataStoreArgs([debug |-> d]) : d \in BOOLEAN}
    \cup {[constructor |-> c, debug |-> d] :
         c \in {"Object", "Array", "MetadataArgs"}, d \in BOOLEAN}
    \cup {[constructor |-> "Object", debug |-> d, data |-> data] :
         d \in BOOLEAN, data \in Buffers}

CallSerializeInstructionData ==
    /\ call = NoCall
    /\ \E instruction \in InstructionObjects :
        /\ call' = [op |-> "serializeInstructionData", instruction |-> instruction,
                    result |-> serializeInstructionData(instruction)]
        /\ UNCHANGED <<accounts, tx, handover, lamports, test>>

NextBuild ==
    \/ CallCreateInitializeDataStoreInstruction
    \/ CallInitializeDataStore
    \/ CallCreateUpdateDataStoreInstruction
    \/ CallUpdateDataStore
    \/ CallUpdateDataStoreAuthority
    \/ CallFinalizeDataStore
    \/ CallCloseDataStore
    \/ CallSerializeInstructionData

SpecBuild == InitClient /\ [][NextBuild]_vars

(***************************************************************************)
(* Encoding two argument structures of one class, and decoding the first   *)
(* back with the same schema.                                              *)
(***************************************************************************)
CreationStructures ==
    {InitializeDataStoreArgs([debug |-> debug, dataType |-> dataType,
                              bumpSeed |-> bumpSeed, isCreated |-> isCreated,
                              space |-> BN(space), authority |-> authority,
                              isDynamic |-> isDynamic]) :
        debug \in BOOLEAN, dataType \in DataStoreTypeOption, bumpSeed \in {0, 255},
        isCreated \in BOOLEAN, space \in {0, 256, 65537}, authority \in Wallets,
        isDynamic \in BOOLEAN}

WriteStructures ==
    {UpdateDataStoreArgs([debug |-> debug, dataHash |-> dataHash, data |-> data,
                          offset |-> BN(offset), reallocDown |-> reallocDown,
                          dataType |-> dataType]) :
        debug \in BOOLEAN, dataHash \in {calculateDataHash(<<>>), calculateDataHash(<<7>>)},
        data \in Buffers, offset \in {0, 256}, reallocDown \in BOOLEAN,
        dataType \in DataStoreTypeOption}

\* the fields of an argument structure
Fields(obj) == [f \in DOMAIN obj \ {"constructor"} |-> obj[f]]

SerializePair(a, b) ==
    /\ call' = [op |-> "serializePair", a |-> a, b |-> b,
                ea |-> serializeInstructionData(a),
                eb |-> serializeInstructionData(b),
                da |-> LET ea == serializeInstructionData(a)
                       IN  IF ea.ok THEN deserialize(schemas(a.constructor), ea.value)
                           ELSE ea]
    /\ UNCHANGED <<accounts, tx, handover, lamports, test>>

SerializeCreationPair ==
    /\ call = NoCall
    /\ \E a \in CreationStructures, b \in CreationStructures : SerializePair(a, b)

SerializeWritePair ==
    /\ call = NoCall
    /\ \E a \in WriteStructures, b \in WriteStructures : SerializePair(a, b)

NextCodec == SerializeCreationPair \/ SerializeWritePair

SpecCodec == InitClient /\ [][NextCodec]_vars

(***************************************************************************)
(* Parsing metadata account infos: null, empty data, data that holds the   *)
(* metadata layout, and data cut short.                                    *)
(***************************************************************************)
MetadataRecords ==
    [dataType : DataStoreTypeOption, bumpSeed : {0, 255},
     authority : {KeyBytes(k) : k \in Wallets \cup {SystemProgramId}},
     isDynamic : BOOLEAN,
     dataHash : {calculateDataHash(<<>>), calculateDataHash(<<7>>)},
     dataStatus : {Uninitialized, Initialized, Finalized},
     space : {0, 12, 65537}]

MetadataBytes(m) == serialize(MetadataSchema, m)

MetadataInfos ==
    {Null, AccountInfo(<<>>)}
        \cup {AccountInfo(MetadataBytes(m)) : m \in MetadataRecords}
        \cup {AccountInfo(SubSeq(MetadataBytes(m), 1, n)) :
                 m \in {x \in MetadataRecords : x.space = 12 /\ x.bumpSeed = 255 /\ x.isDynamic},
                 n \in {1, 34, 75}}

CallParseMetadataFromAccountInfo ==
    /\ call = NoCall
    /\ \E metadataInfo \in MetadataInfos :
        /\ call' = [op |-> "parseMetadataFromAccountInfo", metadataInfo |-> metadataInfo,
                    result |-> parseMetadataFromAccountInfo(metadataInfo)]
        /\ UNCHANGED <<accounts, tx, handover, lamports, test>>

NextParse == CallParseMetadataFromAccountInfo

SpecParse == InitClient /\ [][NextParse]_vars

\* the instruction data a recorded call produced
Payload(c) ==
    IF c.op \in {"createInitializeDataStoreInstruction", "createUpdateDataStoreInstruction",
                 "serializeInstructionData"}
    THEN c.result.value
    ELSE c.result.value.data

Bit(b) == IF b THEN 1 ELSE 0

(***************************************************************************)
(* The ledger and the data store program behind it.  The program is not    *)
(* part of the SDK: it is modelled from what the documentation of the      *)
(* builders says and from what the test cases send and then observe.       *)
(* A transaction is one instruction from a builder and a set of signers.   *)
(***************************************************************************)
MaxSpace == 1

Spaces == 0..MaxSpace

Zeros(n) == [i \in 1..n |-> 0]

\* the keys an instruction marks as signers
RequiredSigners(ix) == {ix.keys[i].pubkey : i \in {j \in DOMAIN ix.keys : ix.keys[j].isSigner}}

\* the metadata record the account at pda holds
StoredMetadata(accs, pda) == deserialize(MetadataSchema, accs[pda][1].data).value

Exists(accs, address) == accs[address] # NoAccount

Rejected(accs) == [ok |-> FALSE, accounts |-> accs]

Accepted(accs) == [ok |-> TRUE, accounts |-> accs]

\* initialize: creates the data account with `space` zero bytes and the
\* metadata account with the authority, type, nonce and dynamic flag of the
\* payload, status Initialized
ProgramInitialize(accs, ix) ==
    LET dataKey == ix.keys[2].pubkey
        pda     == ix.keys[3].pubkey
        args    == deserialize(schemas("InitializeDataStoreArgs"), ix.data).value
    IN  IF \/ pda # getPDA(dataKey)[1]
           \/ Exists(accs, dataKey) \/ Exists(accs, pda)
           \/ args.isCreated
        THEN Rejected(accs)
        ELSE Accepted([accs EXCEPT
                 ![dataKey] = AccountInfo(Zeros(args.space)),
                 ![pda] = AccountInfo(MetadataBytes(
                     [dataType |-> args.dataType, bumpSeed |-> args.bumpSeed,
                      authority |-> args.authority, isDynamic |-> args.isDynamic,
                      dataHash |-> sha256(Zeros(args.space)),
                      dataStatus |-> Initialized, space |-> args.space]))])

\* the bytes of a data account after data is written at offset: a dynamic
\* account grows to hold the write and, with reallocDown, shrinks to its end
WrittenBytes(current, data, offset, reallocDown, isDynamic) ==
    LET end     == offset + Len(data)
        grown   == IF end > Len(current) THEN current \o Zeros(end - Len(current))
                   ELSE current
        written == [i \in 1..Len(grown) |->
                       IF i > offset /\ i <= end THEN data[i - offset] ELSE grown[i]]
    IN  IF reallocDown /\ isDynamic THEN SubSeq(written, 1, end) ELSE written

ProgramUpdateMutant(accs, ix) ==
    LET authority == ix.keys[1].pubkey
        dataKey   == ix.keys[2].pubkey
        pda       == ix.keys[3].pubkey
        args      == deserialize(schemas("UpdateDataStoreArgs"), ix.data).value
    IN  IF \/ pda # getPDA(dataKey)[1]
           \/ ~Exists(accs, dataKey) \/ ~Exists(accs, pda)
        THEN Rejected(accs)
        ELSE LET meta    == StoredMetadata(accs, pda)
                 current == accs[dataKey][1].data
                 end     == args.offset + Len(args.data)
             IN  IF \/ meta.authority # KeyBytes(authority)
                    \/ (end > Len(current) /\ ~meta.isDynamic)
                 THEN Rejected(accs)
                 ELSE LET bytes == WrittenBytes(current, args.data, args.offset,
                                                args.reallocDown, meta.isDynamic)
                      IN  Accepted([accs EXCEPT
                              ![dataKey] = AccountInfo(bytes),
                              ![pda] = AccountInfo(MetadataBytes(
                                  [meta EXCEPT !.dataHash = sha256(bytes),
                                               !.space = Len(bytes)]))])

\* update: only the authority writes, only while the status is Initialized;
\* a write past the end needs a dynamic account
ProgramUpdate(accs, ix) ==
    LET authority == ix.keys[1].pubkey
        dataKey   == ix.keys[2].pubkey
        pda       == ix.keys[3].pubkey
        args      == deserialize(schemas("UpdateDataStoreArgs"), ix.data).value
    IN  IF \/ pda # getPDA(dataKey)[1]
           \/ ~Exists(accs, dataKey) \/ ~Exists(accs, pda)
        THEN Rejected(accs)
        ELSE LET meta    == StoredMetadata(accs, pda)
                 current == accs[dataKey][1].data
                 end     == args.offset + Len(args.data)
             IN  IF \/ meta.authority # KeyBytes(authority)
                    \/ meta.dataStatus # Initialized
                    \/ (end > Len(current) /\ ~meta.isDynamic)
                 THEN Rejected(accs)
                 ELSE LET bytes == WrittenBytes(current, args.data, args.offset,
                                                args.reallocDown, meta.isDynamic)
                      IN  Accepted([accs EXCEPT
                              ![dataKey] = AccountInfo(bytes),
                              ![pda] = AccountInfo(MetadataBytes(
                                  [meta EXCEPT !.dataHash = sha256(bytes),
                                               !.space = Len(bytes)]))])

ProgramUpdateAuthorityMutant(accs, ix) ==
    LET dataKey == ix.keys[2].pubkey
        pda     == ix.keys[3].pubkey
    IN  IF \/ pda # getPDA(dataKey)[1]
           \/ ~Exists(accs, dataKey) \/ ~Exists(accs, pda)
        THEN Rejected(accs)
        ELSE IF StoredMetadata(accs, pda).authority # KeyBytes(ix.keys[1].pubkey)
             THEN Rejected(accs)
             ELSE Accepted(accs)

\* authority change: the authority hands the data store to the new authority
ProgramUpdateAuthority(accs, ix) ==
    LET oldAuthority == ix.keys[1].pubkey
        dataKey      == ix.keys[2].pubkey
        pda          == ix.keys[3].pubkey
        newAuthority == ix.keys[4].pubkey
    IN  IF \/ pda # getPDA(dataKey)[1]
           \/ ~Exists(accs, dataKey) \/ ~Exists(accs, pda)
        THEN Rejected(accs)
        ELSE LET meta == StoredMetadata(accs, pda)
             IN  IF meta.authority # KeyBytes(oldAuthority)
                 THEN Rejected(accs)
                 ELSE Accepted([accs EXCEPT
                          ![pda] = AccountInfo(MetadataBytes(
                              [meta EXCEPT !.authority = KeyBytes(newAuthority)]))])

\* finalize: the authority turns an Initialized data store Finalized
ProgramFinalize(accs, ix) ==
    LET authority == ix.keys[1].pubkey
        dataKey   == ix.keys[2].pubkey
        pda       == ix.keys[3].pubkey
    IN  IF \/ pda # getPDA(dataKey)[1]
           \/ ~Exists(accs, dataKey) \/ ~Exists(accs, pda)
        THEN Rejected(accs)
        ELSE LET meta == StoredMetadata(accs, pda)
             IN  IF meta.authority # KeyBytes(authority) \/ meta.dataStatus # Initialized
                 THEN Rejected(accs)
                 ELSE Accepted([accs EXCEPT
                          ![pda] = AccountInfo(MetadataBytes(
                              [meta EXCEPT !.dataStatus = Finalized]))])

ProgramCloseMutant(accs, ix) ==
    LET authority == ix.keys[1].pubkey
        dataKey   == ix.keys[2].pubkey
        pda       == ix.keys[3].pubkey
    IN  IF \/ pda # getPDA(dataKey)[1]
           \/ ~Exists(accs, dataKey) \/ ~Exists(accs, pda)
        THEN Rejected(accs)
        ELSE IF StoredMetadata(accs, pda).authority # KeyBytes(authority)
             THEN Rejected(accs)
             ELSE Accepted([accs EXCEPT ![dataKey] = NoAccount])

\* close: the authority removes the data account and the metadata account
ProgramClose(accs, ix) ==
    LET authority == ix.keys[1].pubkey
        dataKey   == ix.keys[2].pubkey
        pda       == ix.keys[3].pubkey
    IN  IF \/ pda # getPDA(dataKey)[1]
           \/ ~Exists(accs, dataKey) \/ ~Exists(accs, pda)
        THEN Rejected(accs)
        ELSE IF StoredMetadata(accs, pda).authority # KeyBytes(authority)
             THEN Rejected(accs)
             ELSE Accepted([accs EXCEPT ![dataKey] = NoAccount, ![pda] = NoAccount])

Program(kind, accs, ix) ==
    CASE kind = "initialize" -> ProgramInitialize(accs, ix)
      [] kind = "update" -> ProgramUpdate(accs, ix)
      [] kind = "updateAuthority" -> ProgramUpdateAuthority(accs, ix)
      [] kind = "finalize" -> ProgramFinalize(accs, ix)
      [] kind = "close" -> ProgramClose(accs, ix)

\* sendAndConfirmTransaction(connection, new Transaction().add(ix), signers):
\* fails when a key the instruction marks as signer has not signed or the
\* program rejects the instruction; then no account changes
sendAndConfirmTransaction(kind, accs, built, signers) ==
    IF ~built.ok THEN Rejected(accs)
    ELSE IF ~(RequiredSigners(built.value) \subseteq signers) THEN Rejected(accs)
    ELSE Program(kind, accs, built.value)

\* connection.getAccountInfo(address)
getAccountInfo(address) == accounts[address]

\* the byte values the ledger's writes are drawn from
LedgerBytes == {0, 7}

LedgerBuffers == SeqsUpTo(LedgerBytes, MaxData)

\* the signer sets a transaction can carry: web3.js refuses a signer the
\* transaction does not know, so they are the non-empty subsets of the keys
\* the instruction marks as signers
SignerSets(built) == (SUBSET RequiredSigners(built.value)) \ {{}}

\* the status the metadata account at pda holds, Uninitialized when there is none
StatusOf(accs, pda) ==
    IF pda \in DOMAIN accs /\ Exists(accs, pda) THEN StoredMetadata(accs, pda).dataStatus
    ELSE Uninitialized

\* the fee of a transaction, charged to its first signer
LamportsPerSignature == 5

TransactionFee(signers) == LamportsPerSignature * Cardinality(signers)

\* the balance below which the runtime does not keep an account of n bytes
RentExemptMinimum(n) == (128 + n) * 7

\* what the account at address has to hold after the instruction
RequiredBalance(accs, address) ==
    IF Exists(accs, address) THEN RentExemptMinimum(Len(accs[address][1].data)) ELSE 0

\* The lamports side of a processed transaction.  The first key pays the
\* fee whether or not the program accepts the instruction; an accepted
\* instruction leaves each program account with its rent-exempt minimum and
\* moves the difference from or to the first key; no lamport is created.
Settle(lam, accs, built, signers, outcome) ==
    LET payer    == built.value.keys[1].pubkey
        dataKey  == built.value.keys[2].pubkey
        pda      == built.value.keys[3].pubkey
        settled  == [ok |-> outcome.ok, accounts |-> outcome.accounts, lamports |-> lam]
        unsent   == [ok |-> FALSE, accounts |-> accs, lamports |-> lam]
    IN  IF ~built.ok THEN unsent
        ELSE IF ~(RequiredSigners(built.value) \subseteq signers) THEN unsent
        ELSE IF lam[payer] = Unobserved THEN settled
        ELSE IF lam[payer][1] < TransactionFee(signers) THEN unsent
        ELSE LET charged == [lam EXCEPT ![payer] = Some(@[1] - TransactionFee(signers))]
                 failed  == [ok |-> FALSE, accounts |-> accs, lamports |-> charged]
                 held(a) == charged[a][1]
                 surplus(a) == held(a) - RequiredBalance(outcome.accounts, a)
                 net     == surplus(dataKey) + surplus(pda)
             IN  IF ~outcome.ok THEN failed
                 ELSE IF held(payer) + net < 0 THEN failed
                 ELSE [ok |-> TRUE, accounts |-> outcome.accounts,
                       lamports |-> [a \in DOMAIN charged |->
                           IF a = payer THEN Some(held(payer) + net)
                           ELSE IF a \in {dataKey, pda}
                                THEN Some(RequiredBalance(outcome.accounts, a))
                                ELSE charged[a]]]

\* connection.getBalance(address)
getBalance(address) == lamports[address][1]

\* one transaction sent and confirmed or refused: the ledger after it and
\* the record of what was sent
Submit(kind, built, signers, change) ==
    \E outcome \in {Settle(lamports, accounts, built, signers,
                           sendAndConfirmTransaction(kind, accounts, built, signers))} :
        /\ accounts' = outcome.accounts
        /\ lamports' = outcome.lamports
        /\ tx' = [kind |-> kind, ok |-> outcome.ok,
                  first |-> built.value.keys[1].pubkey,
                  dataAccount |-> built.value.keys[2].pubkey,
                  signers |-> signers,
                  before |-> StatusOf(accounts, built.value.keys[3].pubkey)]
        /\ handover' = IF ~outcome.ok THEN handover
                       ELSE IF kind = "updateAuthority" THEN Some(change)
                       ELSE IF kind = "initialize" THEN Null
                       ELSE handover
        /\ UNCHANGED call

Send(kind, built, signers, change) ==
    /\ Submit(kind, built, signers, change)
    /\ UNCHANGED test

TestDebug == Some(TRUE)

\* as in every test case, the fee payer of an initialize is the authority and
\* the data account is created by the program (isCreated false)
SendInitialize ==
    \E dataAccount \in LedgerDataKeys, authority \in Wallets,
       dataType \in DataStoreTypeOption, space \in Spaces, isDynamic \in BOOLEAN :
        \E built \in {initializeDataStore(authority, dataAccount, authority, dataType,
                                          FALSE, space, isDynamic, TestDebug)} :
            \E signers \in SignerSets(built) : Send("initialize", built, signers, <<>>)

SendUpdate ==
    \E authority \in Wallets, dataAccount \in LedgerDataKeys, data \in LedgerBuffers,
       offset \in Spaces, reallocDown \in BOOLEAN :
        \E built \in {updateDataStore(authority, dataAccount, data, offset, reallocDown,
                                      File, TestDebug)} :
            \E signers \in SignerSets(built) : Send("update", built, signers, <<>>)

SendUpdateAuthority ==
    \E oldAuthority \in Wallets, dataAccount \in LedgerDataKeys, newAuthority \in Wallets :
        \E built \in {updateDataStoreAuthority(oldAuthority, dataAccount, newAuthority,
                                               TestDebug)} :
            \E signers \in SignerSets(built) :
                Send("updateAuthority", built, signers,
                     [old |-> oldAuthority, new |-> newAuthority])

SendFinalize ==
    \E authority \in Wallets, dataAccount \in LedgerDataKeys :
        \E built \in {finalizeDataStore(authority, dataAccount, TestDebug)} :
            \E signers \in SignerSets(built) : Send("finalize", built, signers, <<>>)

SendClose ==
    \E authority \in Wallets, dataAccount \in LedgerDataKeys :
        \E built \in {closeDataStore(authority, dataAccount, TestDebug)} :
            \E signers \in SignerSets(built) : Send("close", built, signers, <<>>)

Init == InitClient

Next ==
    \/ SendInitialize
    \/ SendUpdate
    \/ SendUpdateAuthority
    \/ SendFinalize
    \/ SendClose

Spec == Init /\ [][Next]_vars

(***************************************************************************)
(* uploadDataTest: the balance is read, a data store of the size of the    *)
(* content is initialized by the fee payer as its own authority, the       *)
(* content is written at offset 0, metadata and data are verified, the     *)
(* accounts are closed, and the balance is read again.                     *)
(***************************************************************************)
\* what ensureBalance leaves a wallet with before the test cases run
StartBalances == {4000, 6000}

UploadContents == LedgerBuffers \ {<<>>}

UploadDataAccount == "D1"

InitUpload ==
    /\ call = NoCall
    /\ accounts = EmptyLedger
    /\ tx = NoTransaction
    /\ handover = Null
    /\ lamports \in {[a \in Wallets \cup LedgerAddresses |->
                        IF a \in Wallets THEN Some(b[a]) ELSE Some(0)] :
                     b \in [Wallets -> StartBalances]}
    /\ test \in {[name |-> "uploadDataTest", pc |-> "getInitialBalance",
                  feePayer |-> w, dataBuffer |-> c,
                  initialBalance |-> Undefined, finalBalance |-> Undefined] :
                 w \in Wallets, c \in UploadContents}

UploadGetInitialBalance ==
    /\ test.name = "uploadDataTest" /\ test.pc = "getInitialBalance"
    /\ test' = [test EXCEPT !.initialBalance = Some(getBalance(test.feePayer)),
                            !.pc = "initialize"]
    /\ UNCHANGED <<call, accounts, tx, handover, lamports>>

UploadInitialize ==
    /\ test.name = "uploadDataTest" /\ test.pc = "initialize"
    /\ Submit("initialize",
              initializeDataStore(test.feePayer, UploadDataAccount, test.feePayer, File,
                                  FALSE, Len(test.dataBuffer), FALSE, Some(TRUE)),
              {test.feePayer, UploadDataAccount}, <<>>)
    /\ test' = [test EXCEPT !.pc = IF tx'.ok THEN "upload" ELSE "failed"]

UploadUpdate ==
    /\ test.name = "uploadDataTest" /\ test.pc = "upload"
    /\ Submit("update",
              updateDataStore(test.feePayer, UploadDataAccount, test.dataBuffer, 0,
                              FALSE, File, Some(TRUE)),
              {test.feePayer}, <<>>)
    /\ test' = [test EXCEPT !.pc = IF tx'.ok THEN "verify" ELSE "failed"]

\* the assertions on the metadata and on the stored data
UploadVerify ==
    /\ test.name = "uploadDataTest" /\ test.pc = "verify"
    /\ LET metadata == parseMetadataFromAccountInfo(
                           getAccountInfo(getPDA(UploadDataAccount)[1]))
           accountData == getAccountInfo(UploadDataAccount)
           asserted ==
               /\ metadata.ok
               /\ metadata.value.authority = toBase58(KeyBytes(test.feePayer))
               /\ metadata.value.dataStatus = Initialized
               /\ metadata.value.dataType = File
               /\ ~metadata.value.isDynamic
               /\ accountData # Null
               /\ accountData[1].data = test.dataBuffer
       IN  test' = [test EXCEPT !.pc = IF asserted THEN "close" ELSE "failed"]
    /\ UNCHANGED <<call, accounts, tx, handover, lamports>>

UploadClose ==
    /\ test.name = "uploadDataTest" /\ test.pc = "close"
    /\ Submit("close", closeDataStore(test.feePayer, UploadDataAccount, Some(TRUE)),
              {test.feePayer}, <<>>)
    /\ test' = [test EXCEPT !.pc = IF tx'.ok THEN "cleanup" ELSE "failed"]

\* the final balance is read and compared, then both accounts must be gone
UploadVerifyCleanup ==
    /\ test.name = "uploadDataTest" /\ test.pc = "cleanup"
    /\ LET finalBalance == getBalance(test.feePayer)
           asserted ==
               /\ finalBalance > test.initialBalance[1]
               /\ getAccountInfo(UploadDataAccount) = Null
               /\ getAccountInfo(getPDA(UploadDataAccount)[1]) = Null
       IN  test' = [test EXCEPT !.finalBalance = Some(finalBalance),
                                !.pc = IF asserted THEN "passed" ELSE "failed"]
    /\ UNCHANGED <<call, accounts, tx, handover, lamports>>

NextUpload ==
    \/ UploadGetInitialBalance
    \/ UploadInitialize
    \/ UploadUpdate
    \/ UploadVerify
    \/ UploadClose
    \/ UploadVerifyCleanup

SpecUpload == InitUpload /\ [][NextUpload]_vars

(***************************************************************************)
(* A data store followed from its initialize.  A store session keeps what  *)
(* it created, the writes the program accepted and whether a finalize was  *)
(* accepted, as the test cases do with their constants; updateDataTest     *)
(* runs its own fixed writes.                                              *)
(***************************************************************************)
MaxWrites == 2

\* Buffer.from("Hxxlo"), Buffer.from("el"), Buffer.from(" World!")
Hxxlo == <<72, 120, 120, 108, 111>>

El == <<101, 108>>

World == <<32, 87, 111, 114, 108, 100, 33>>

HelloWorld == <<72, 101, 108, 108, 111, 32, 87, 111, 114, 108, 100, 33>>

StoreBuffers == {Hxxlo, El, World}

StoreOffsets == {0, 1, 5}

\* the size of "Hxxlo" and the size of "Hello World!"
StoreSpaces == {Len(Hxxlo), Len(HelloWorld)}

StoreDataAccount == "D1"

InitStore ==
    /\ call = NoCall
    /\ accounts = EmptyLedger
    /\ tx = NoTransaction
    /\ handover = Null
    /\ lamports = UnobservedBalances
    /\ test \in {[name |-> "store", created |-> Undefined, finalized |-> FALSE,
                  writes |-> <<>>, before |-> <<>>]}
                \cup {[name |-> "updateDataTest", pc |-> "initialize", feePayer |-> w] :
                         w \in Wallets}

StoreInitialize ==
    /\ test.name = "store" /\ test.created = Undefined
    /\ \E authority \in Wallets, dataType \in DataStoreTypeOption,
          space \in StoreSpaces, isDynamic \in BOOLEAN :
        /\ Submit("initialize",
                  initializeDataStore(authority, StoreDataAccount, authority, dataType,
                                      FALSE, space, isDynamic, TestDebug),
                  {authority, StoreDataAccount}, <<>>)
        /\ test' = IF tx'.ok
                   THEN [test EXCEPT !.created = Some([authority |-> authority,
                                                       dataType |-> dataType,
                                                       space |-> space,
                                                       isDynamic |-> isDynamic])]
                   ELSE test

StoreWrite ==
    /\ test.name = "store" /\ test.created # Undefined
    /\ Len(test.writes) < MaxWrites
    /\ \E data \in StoreBuffers, offset \in StoreOffsets,
          reallocDown \in BOOLEAN, dataType \in DataStoreTypeOption :
        /\ Submit("update",
                  updateDataStore(test.created[1].authority, StoreDataAccount, data,
                                  offset, reallocDown, dataType, TestDebug),
                  {test.created[1].authority}, <<>>)
        /\ test' = IF tx'.ok
                   THEN [test EXCEPT
                            !.writes = Append(@, [data |-> data, offset |-> offset,
                                                  reallocDown |-> reallocDown]),
                            !.before = getAccountInfo(StoreDataAccount)[1].data]
                   ELSE test

StoreFinalize ==
    /\ test.name = "store" /\ test.created # Undefined
    /\ Submit("finalize",
              finalizeDataStore(test.created[1].authority, StoreDataAccount, TestDebug),
              {test.created[1].authority}, <<>>)
    /\ test' = IF tx'.ok THEN [test EXCEPT !.finalized = TRUE] ELSE test

\* one step of updateDataTest: the transaction is sent, and a failure ends
\* the test
UpdateTestStep(pc, kind, built, signers, next) ==
    /\ test.name = "updateDataTest" /\ test.pc = pc
    /\ Submit(kind, built, signers, <<>>)
    /\ test' = [test EXCEPT !.pc = IF tx'.ok THEN next ELSE "failed"]

\* one assertion of updateDataTest on the data read back
UpdateTestAssert(pc, asserted, next) ==
    /\ test.name = "updateDataTest" /\ test.pc = pc
    /\ test' = [test EXCEPT !.pc = IF asserted THEN next ELSE "failed"]
    /\ UNCHANGED <<call, accounts, tx, handover, lamports>>

UpdateTestInitialize ==
    UpdateTestStep("initialize", "initialize",
        initializeDataStore(test.feePayer, StoreDataAccount, test.feePayer, File, FALSE,
                            12, TRUE, Some(TRUE)),
        {test.feePayer, StoreDataAccount}, "write")

UpdateTestWrite ==
    UpdateTestStep("write", "update",
        updateDataStore(test.feePayer, StoreDataAccount, Hxxlo, 0, FALSE, File, Some(TRUE)),
        {test.feePayer}, "update")

UpdateTestUpdate ==
    UpdateTestStep("update", "update",
        updateDataStore(test.feePayer, StoreDataAccount, El, 1, FALSE, File, Some(TRUE)),
        {test.feePayer}, "verifyHello")

\* data.toString().startsWith("Hello")
UpdateTestVerifyHello ==
    UpdateTestAssert("verifyHello",
        /\ getAccountInfo(StoreDataAccount) # Null
        /\ Len(getAccountInfo(StoreDataAccount)[1].data) >= 5
        /\ SubSeq(getAccountInfo(StoreDataAccount)[1].data, 1, 5) = SubSeq(HelloWorld, 1, 5),
        "append")

UpdateTestAppend ==
    UpdateTestStep("append", "update",
        updateDataStore(test.feePayer, StoreDataAccount, World, 5, FALSE, File, Some(TRUE)),
        {test.feePayer}, "verifyFinal")

\* data.toString() === "Hello World!"
UpdateTestVerifyFinal ==
    UpdateTestAssert("verifyFinal",
        /\ getAccountInfo(StoreDataAccount) # Null
        /\ getAccountInfo(StoreDataAccount)[1].data = HelloWorld,
        "close")

UpdateTestClose ==
    UpdateTestStep("close", "close",
        closeDataStore(test.feePayer, StoreDataAccount, Some(TRUE)),
        {test.feePayer}, "passed")

NextStore ==
    \/ StoreInitialize
    \/ StoreWrite
    \/ StoreFinalize
    \/ UpdateTestInitialize
    \/ UpdateTestWrite
    \/ UpdateTestUpdate
    \/ UpdateTestVerifyHello
    \/ UpdateTestAppend
    \/ UpdateTestVerifyFinal
    \/ UpdateTestClose

SpecStore == InitStore /\ [][NextStore]_vars

(***************************************************************************)
(* Properties of the encoders and the builders.                            *)
(***************************************************************************)
CreationCalls == {"createInitializeDataStoreInstruction", "initializeDataStore"}

WriteCalls == {"createUpdateDataStoreInstruction", "updateDataStore"}

DebugOnlyCalls == {"updateDataStoreAuthority", "finalizeDataStore", "closeDataStore"}

\* C1: the creation payload is 45 bytes: debug flag, type tag, derivation
\* nonce, creation flag, allocated size (u64 little-endian), the 32 authority
\* bytes, dynamic flag, each holding the value of the encoder's argument of
\* that name, for the encoder called directly and through initializeDataStore.
C1_CreationPayloadHoldsArguments ==
    call.op \in CreationCalls =>
        /\ call.result.ok
        /\ LET p == Payload(call)
               a == call.args
           IN  /\ Len(p) = 45
               /\ p[1] = Bit(a.debug)
               /\ p[2] = a.dataType
               /\ Prop(a, "bumpSeed") = Some(p[3])
               /\ p[4] = Bit(a.isCreated)
               /\ LittleEndianValue(SubSeq(p, 5, 12)) = a.space
               /\ SubSeq(p, 13, 44) = KeyBytes(a.authority)
               /\ p[45] = Bit(a.isDynamic)

\* C2: the write payload is 47 + n bytes: debug flag, the 32-byte content
\* hash, the length n in 4 little-endian bytes, the n data bytes, the offset
\* (u64 little-endian), the shrink-on-write flag, the type tag.
C2_WritePayloadLayout ==
    call.op \in WriteCalls =>
        /\ call.result.ok
        /\ LET p == Payload(call)
               a == call.args
               n == Len(a.data)
           IN  /\ Len(p) = 47 + n
               /\ p[1] = Bit(a.debug)
               /\ SubSeq(p, 2, 33) = calculateDataHash(a.data)
               /\ LittleEndianValue(SubSeq(p, 34, 37)) = n
               /\ SubSeq(p, 38, 37 + n) = a.data
               /\ LittleEndianValue(SubSeq(p, 38 + n, 45 + n)) = a.offset
               /\ p[46 + n] = Bit(a.reallocDown)
               /\ p[47 + n] = a.dataType

C2_Witness ==
    /\ call.op = "updateDataStore"
    /\ call.params.data = <<255, 7>>
    /\ call.params.offset = 65537
    /\ call.result.ok
    /\ Len(call.result.value.data) = 49

\* C3: updateDataStoreAuthority, finalizeDataStore and closeDataStore return
\* an instruction whose data is the one debug byte: 1 for debug true, 0 for
\* debug false or omitted.
C3_DebugOnlyPayload ==
    call.op \in DebugOnlyCalls =>
        /\ call.result.ok
        /\ call.result.value.data = <<IF call.params.debug = Some(TRUE) THEN 1 ELSE 0>>

C3_Witness ==
    /\ call.op = "updateDataStoreAuthority"
    /\ call.params.debug = Some(FALSE)
    /\ call.result.ok
    /\ call.result.value.data = <<0>>

RegisteredClasses ==
    {"InitializeDataStoreArgs", "UpdateDataStoreArgs", "UpdateDataStoreAuthorityArgs",
     "FinalizeDataStoreArgs", "CloseDataStoreArgs"}

\* C7: serializeInstructionData throws 'Schema not found for instruction'
\* exactly for the objects whose constructor is none of the five argument
\* classes; for an object of one of the five it returns bytes.
C7_SchemaLookup ==
    call.op = "serializeInstructionData" =>
        IF call.instruction.constructor \in RegisteredClasses
        THEN /\ call.result.ok
             /\ Len(call.result.value) >= 1
        ELSE call.result = [ok |-> FALSE, error |-> "Schema not found for instruction"]

C7_Witness ==
    /\ call.op = "serializeInstructionData"
    /\ call.instruction.constructor = "Object"
    /\ ~call.result.ok
    /\ call.result.error = "Schema not found for instruction"

\* C4: two argument structures of one class encode to the same bytes exactly
\* when they are equal field by field, and decoding the bytes in the schema's
\* field order gives back the encoded values.
C4_EncodingLossless ==
    call.op = "serializePair" =>
        /\ call.ea.ok /\ call.eb.ok
        /\ (call.ea.value = call.eb.value) <=> (Fields(call.a) = Fields(call.b))
        /\ call.da.ok
        /\ call.da.value = Fields(call.a)

C4_Witness ==
    /\ call.op = "serializePair"
    /\ call.a.constructor = "UpdateDataStoreArgs"
    /\ call.a.data = <<7>> /\ call.b.data = <<7, 7>>
    /\ call.a.offset = 256 /\ call.b.offset = 256
    /\ call.ea.ok /\ call.eb.ok
    /\ call.ea.value # call.eb.value
    /\ call.da.ok /\ call.da.value.data = <<7>>

MetadataFields ==
    {"dataType", "authority", "dataStatus", "bumpSeed", "dataHash", "isDynamic", "space"}

C6_InvalidMetadataRejected ==
    (/\ call.op = "parseMetadataFromAccountInfo"
     /\ (call.metadataInfo = Null \/ Len(call.metadataInfo[1].data) = 0)) =>
        call.result = [ok |-> FALSE, error |-> "Invalid metadata account data"]

C6_Witness ==
    /\ call.op = "parseMetadataFromAccountInfo"
    /\ call.metadataInfo = AccountInfo(<<>>)
    /\ ~call.result.ok
    /\ call.result.error = "Invalid metadata account data"

(***************************************************************************)
(* Properties of the data store as the client observes it on the ledger.   *)
(***************************************************************************)
\* the base58 text of each wallet's key
Base58Of == [k \in Wallets |-> toBase58(KeyBytes(k))]

\* what the client reads back: the parsed metadata of a data account
ParsedMetadata(dataAccount) ==
    parseMetadataFromAccountInfo(getAccountInfo(getPDA(dataAccount)[1])).value

Live(dataAccount) ==
    /\ getAccountInfo(dataAccount) # Null
    /\ getAccountInfo(getPDA(dataAccount)[1]) # Null

IsFinalized(dataAccount) ==
    Live(dataAccount) /\ ParsedMetadata(dataAccount).dataStatus = Finalized

\* the status Finalized as the metadata account bytes hold it
FinalizedOnLedger(accs, d) ==
    /\ Exists(accs, d)
    /\ Exists(accs, getPDA(d)[1])
    /\ LittleEndianValue(SubSeq(accs[getPDA(d)[1]][1].data, 68, 68)) = Finalized

\* C8: a finalize that succeeds leaves the status Finalized; while the status
\* is Finalized every updateDataStore transaction is rejected, and no
\* transaction other than a close changes the bytes of the data account or
\* the status.
C8_FinalizedNoFurtherWrites ==
    /\ [](\A d \in LedgerDataKeys :
            /\ (tx.kind = "finalize" /\ tx.ok /\ tx.dataAccount = d) => IsFinalized(d)
            /\ FinalizedOnLedger(accounts, d) => IsFinalized(d))
    /\ [][\A d \in LedgerDataKeys :
            FinalizedOnLedger(accounts, d) =>
                /\ (tx'.kind = "update" /\ tx'.dataAccount = d) =>
                       (~tx'.ok /\ accounts' = accounts)
                /\ tx'.kind # "close" =>
                       (accounts'[d] = accounts[d] /\ FinalizedOnLedger(accounts', d))]_vars

C8_Witness ==
    /\ IsFinalized("D1")
    /\ getAccountInfo("D1") = AccountInfo(<<7>>)
    /\ tx.kind = "update" /\ ~tx.ok /\ tx.before = Finalized
    /\ tx.signers = {tx.first}
    /\ ParsedMetadata("D1").authority = Base58Of[tx.first]

\* C9: after an authority change that succeeded (signed by the old and the
\* new authority) the metadata authority is the new authority; a close by the
\* old authority is then rejected and leaves both accounts in place, and a
\* close by the new authority succeeds.
C9_AuthorityHandover ==
    /\ [](\A d \in LedgerDataKeys :
            /\ (handover # Null /\ Live(d)) =>
                   ParsedMetadata(d).authority = Base58Of[handover[1].new]
            /\ (tx.kind = "updateAuthority" /\ tx.ok) =>
                   {handover[1].old, handover[1].new} \subseteq tx.signers)
    /\ [][\A d \in LedgerDataKeys :
            (handover # Null /\ Live(d) /\ tx'.kind = "close" /\ tx'.dataAccount = d) =>
                /\ (tx'.first = handover[1].old /\ handover[1].old # handover[1].new) =>
                       (~tx'.ok /\ accounts' = accounts /\ Live(d)')
                /\ (tx'.first = handover[1].new /\ handover[1].new \in tx'.signers) =>
                       (tx'.ok /\ ~Live(d)')]_vars

C9_Witness ==
    /\ handover = Some([old |-> "W1", new |-> "W2"])
    /\ tx.kind = "close" /\ tx.ok
    /\ tx.first = "W2" /\ tx.signers = {"W2"}
    /\ getAccountInfo("D1") = Null

\* C10: after a close that succeeded, signed by the authority, neither the
\* data account nor its metadata account exists, whatever the status before.
C10_ClosedAccountsGone ==
    \A d \in LedgerDataKeys :
        (tx.kind = "close" /\ tx.ok /\ tx.dataAccount = d) =>
            /\ tx.first \in tx.signers
            /\ getAccountInfo(d) = Null
            /\ getAccountInfo(getPDA(d)[1]) = Null

C10_Witness ==
    /\ tx.kind = "close" /\ tx.ok /\ tx.dataAccount = "D1"
    /\ tx.before = Finalized
    /\ getAccountInfo("D1") = Null
    /\ getAccountInfo("P1") = Null

\* C14: the derivation nonce in the creation payload that initializeDataStore
\* builds is the bump seed getPDA returns for the same data account.
C14_NonceIsBumpSeed ==
    call.op = "initializeDataStore" =>
        /\ call.result.ok
        /\ Payload(call)[3] = getPDA(call.params.dataAccount)[2]

\* the content hash and the data bytes a write payload carries
PayloadHash(p) == SubSeq(p, 2, 33)

PayloadData(p) == SubSeq(p, 38, 37 + LittleEndianValue(SubSeq(p, 34, 37)))

\* C15: the 32-byte content hash of a write payload is the SHA-256 of the
\* data bytes the same payload carries, also when the caller's argument
\* object brings a dataHash of its own.
C15_HashOfCarriedData ==
    call.op \in WriteCalls =>
        /\ call.result.ok
        /\ PayloadHash(Payload(call)) = calculateDataHash(PayloadData(Payload(call)))
        /\ PayloadData(Payload(call)) = call.args.data

C15_Witness ==
    /\ call.op = "createUpdateDataStoreInstruction"
    /\ call.args.data = <<255, 7>>
    /\ Prop(call.args, "dataHash") = Some(sha256(<<7>>))
    /\ call.result.ok
    /\ PayloadHash(call.result.value) = sha256(<<255, 7>>)
    /\ PayloadHash(call.result.value) # sha256(<<7>>)

BuilderCalls ==
    {"initializeDataStore", "updateDataStore", "updateDataStoreAuthority",
     "finalizeDataStore", "closeDataStore"}

\* the paying or authorising key of a builder call
FirstKey(c) ==
    CASE c.op = "initializeDataStore" -> c.params.feePayer
      [] c.op = "updateDataStoreAuthority" -> c.params.oldAuthority
      [] OTHER -> c.params.authority

\* the metadata account the builders name for a data account, whatever the
\* other arguments are
NamedMetadataAccounts(dataAccount) ==
    {initializeDataStore(w, dataAccount, v, t, b, 12, b, Undefined).value.keys[3].pubkey :
        w \in Wallets, v \in Wallets, t \in DataStoreTypeOption, b \in BOOLEAN}
    \cup {updateDataStore(w, dataAccount, <<7>>, 0, b, File, Undefined).value.keys[3].pubkey :
        w \in Wallets, b \in BOOLEAN}
    \cup {updateDataStoreAuthority(w, dataAccount, v, Undefined).value.keys[3].pubkey :
        w \in Wallets, v \in Wallets}
    \cup {finalizeDataStore(w, dataAccount, Undefined).value.keys[3].pubkey : w \in Wallets}
    \cup {closeDataStore(w, dataAccount, Undefined).value.keys[3].pubkey : w \in Wallets}

\* C16: every instruction of the five builders targets DATA_STORE_PROGRAM_ID,
\* has the paying or authorising key first and signer, the data account
\* second, and third the metadata account getPDA(dataAccount), writable and
\* not signer; all builder calls on one data account name one metadata account.
C16_InstructionAccounts ==
    call.op \in BuilderCalls =>
        /\ call.result.ok
        /\ LET ix == call.result.value
           IN  /\ ix.programId = DATA_STORE_PROGRAM_ID
               /\ Len(ix.keys) >= 3
               /\ ix.keys[1].pubkey = FirstKey(call)
               /\ ix.keys[1].isSigner
               /\ ix.keys[2].pubkey = call.params.dataAccount
               /\ ix.keys[3] = AccountMeta(getPDA(call.params.dataAccount)[1], FALSE, TRUE)
               /\ NamedMetadataAccounts(call.params.dataAccount) = {ix.keys[3].pubkey}

C16_Witness ==
    /\ call.op = "closeDataStore"
    /\ call.params.authority = "W2"
    /\ call.params.dataAccount = "D2"
    /\ call.result.ok
    /\ call.result.value.keys[1] = AccountMeta("W2", TRUE, TRUE)
    /\ call.result.value.keys[3].pubkey = "P2"

\* C17: initializeDataStore marks the data account as signer exactly when
\* isCreated is false and puts isCreated in the creation flag of the payload;
\* no other builder marks the data account as signer; updateDataStoreAuthority
\* marks the old and the new authority as signers.
C17_SignerFlags ==
    call.op \in BuilderCalls =>
        /\ call.result.ok
        /\ LET ix == call.result.value
           IN  /\ call.op = "initializeDataStore" =>
                    /\ ix.keys[2].isSigner = ~call.params.isCreated
                    /\ ix.data[4] = Bit(call.params.isCreated)
               /\ call.op # "initializeDataStore" =>
                    \A i \in 1..Len(ix.keys) :
                        ix.keys[i].pubkey = call.params.dataAccount => ~ix.keys[i].isSigner
               /\ call.op = "updateDataStoreAuthority" =>
                    /\ ix.keys[1] = AccountMeta(call.params.oldAuthority, TRUE, FALSE)
                    /\ ix.keys[4] = AccountMeta(call.params.newAuthority, TRUE, FALSE)

C17_Witness ==
    /\ call.op = "initializeDataStore"
    /\ call.params.isCreated
    /\ call.result.ok
    /\ ~call.result.value.keys[2].isSigner
    /\ call.result.value.data[4] = 1

\* C11: in uploadDataTest (initialize with the fee payer as authority, one
\* write, close, all sent by the fee payer) the balance of the fee payer read
\* after the close is strictly greater than the one read before the initialize.
C11_BalanceGreaterAfterClose ==
    (test.name = "uploadDataTest" /\ test.finalBalance # Undefined) =>
        test.finalBalance[1] > test.initialBalance[1]

\* the bytes of the data account of the store
StoredBytes == getAccountInfo(StoreDataAccount)[1].data

LastWrite == test.writes[Len(test.writes)]

\* C13: after an accepted write of data d at offset o, bytes [o, o + length(d))
\* of the data account are d and every byte before o is what it was; the
\* whole content written at offset 0 into an account of exactly its size is
\* the stored data; on a dynamic account of space 12, 'Hxxlo' at 0, 'el' at 1
\* and ' World!' at 5 leave 'Hello' first and exactly 'Hello World!' at the end.
C13_WriteFrame ==
    /\ (test.name = "store" /\ test.created # Undefined /\ test.writes # <<>>) =>
         LET d == LastWrite.data
             o == LastWrite.offset
         IN  /\ Len(StoredBytes) >= o + Len(d)
             /\ SubSeq(StoredBytes, o + 1, o + Len(d)) = d
             /\ \A i \in 1..o : i <= Len(test.before) => StoredBytes[i] = test.before[i]
             /\ (o = 0 /\ test.created[1].space = Len(d) /\ Len(test.before) = Len(d))
                    => StoredBytes = d
    /\ test.name = "updateDataTest" =>
         /\ test.pc # "failed"
         /\ test.pc = "update" => SubSeq(StoredBytes, 1, 5) = Hxxlo
         /\ test.pc = "verifyHello" => SubSeq(StoredBytes, 1, 5) = SubSeq(HelloWorld, 1, 5)
         /\ test.pc \in {"verifyFinal", "close"} => StoredBytes = HelloWorld

C13_Witness ==
    /\ test.name = "updateDataTest"
    /\ test.pc = "close"
    /\ tx.kind = "update" /\ tx.ok
    /\ StoredBytes = HelloWorld

====
